---- MODULE Spec2Model ----
(***************************************************************************)
(* Wastopia backend canister (src/src/index.ts).                           *)
(*                                                                         *)
(* Specification Spec is the canister as exported at lines 111-469: the    *)
(* stable maps, the update methods createUser, createWaste, updateWaste    *)
(* and processPayment, and the listing queries, each an atomic message     *)
(* execution.                                                              *)
(*                                                                         *)
(* Text values are sequences of character codes, so that toText and the    *)
(* string hash are computed rather than assumed.  A StableBTreeMap is a    *)
(* function whose DOMAIN is the set of keys present.  The created/updated  *)
(* timestamps of User and Waste records are written but never read by any  *)
(* method; they are left out of the records.                               *)
(*                                                                         *)
(* Specification SpecOrders is the pending-order protocol of spec sections *)
(* 4.2-4.5.  The file holds its helpers: hash (475-477),                   *)
(* generateCorrelationId (491-494), discardByTimeout (500-505) and         *)
(* verifyPaymentInternal (506-521), and the payment record of              *)
(* processPayment (438-462).  The table pendingOrders, the ledger canister *)
(* and the two operations that call the helpers (initiate, confirm) are    *)
(* not in the file; they are modelled from the specification.              *)
(***************************************************************************)
EXTENDS Integers, Sequences, FiniteSets, TLC

VARIABLES
    userStorage,     \* line 102: Principal -> User
    wasteStorage,    \* line 104: text -> Waste
    paymentStorage,  \* line 105: set of Payment records (keyed by fresh uuid)
    last,            \* the last call and the Result it returned
    pendingOrders,   \* line 502: memo -> pending order
    timers,          \* line 501: the timers set by ic.setTimer and not yet fired
    ledger,          \* line 507: the blocks of the ledger canister
    inflight,        \* line 507: calls of confirm suspended at the await
    now,             \* ic.time()
    log,             \* line 503: the lines written by the timer callback
    issued           \* history: orders created, ids generated and ledger checks passed

canisterVars == <<userStorage, wasteStorage>>

orderVars == <<pendingOrders, timers, ledger, inflight, now, log, issued>>

vars == <<userStorage, wasteStorage, paymentStorage, last,
          pendingOrders, timers, ledger, inflight, now, log, issued>>

----------------------------------------------------------------------------
(* Bounds of the model *)

NumPrincipals == 2

Principals == 1..NumPrincipals

\* line 24
USER_ROLES == {"sender", "receiver"}

\* role names a client may pass to createUser; "buyer" is the role
\* processPayment asks for at line 434
RoleInputs == USER_ROLES \cup {"buyer"}

\* listing ids a client may pass: "Aa", "BB"
WasteIds == {<<65, 97>>, <<66, 66>>}

\* the values a client may pass in the other fields of a payload
Descriptions == {1, 2}
Weights == {1, 2}
Categories == {1}

WastePayloads ==
    [id : WasteIds, description : Descriptions, weight : Weights,
     categoryId : Categories, status : BOOLEAN]

\* Principal.toText(): "p1", "p2", ...
toText(p) == <<112, 48 + p>>

----------------------------------------------------------------------------
(* StableBTreeMap *)

EmptyMap == <<>>

containsKey(m, k) == k \in DOMAIN m

insert(m, k, v) == [x \in (DOMAIN m) \cup {k} |-> IF x = k THEN v ELSE m[x]]

\* the record kept in `last`: the method, its caller, the listing id it was
\* given (<<>> when it takes none) and the tag of the Result it returned
Call(op, caller, id, result) ==
    [op |-> op, caller |-> caller, id |-> id, memo |-> <<>>, result |-> result]

----------------------------------------------------------------------------
(* createUser, lines 144-173 *)

createUser(caller, name) ==
    IF containsKey(userStorage, caller)
    THEN /\ last' = Call("createUser", caller, <<>>, "UserAlreadyExists")
         /\ UNCHANGED <<userStorage, wasteStorage, paymentStorage, orderVars>>
    ELSE IF name \notin USER_ROLES
    THEN /\ last' = Call("createUser", caller, <<>>, "InvalidUserRole")
         /\ UNCHANGED <<userStorage, wasteStorage, paymentStorage, orderVars>>
    ELSE /\ userStorage' = insert(userStorage, caller,
                                  [id |-> caller, name |-> name, role |-> name, status |-> TRUE])
         /\ last' = Call("createUser", caller, <<>>, "Ok")
         /\ UNCHANGED <<wasteStorage, paymentStorage, orderVars>>

----------------------------------------------------------------------------
(* createWaste, lines 228-260 *)

NewWasteUnverified(caller, wastepayload) ==
    [id |-> wastepayload.id, categoryId |-> wastepayload.categoryId,
     description |-> wastepayload.description, weight |-> wastepayload.weight,
     status |-> FALSE, authorId |-> toText(caller)]

\* lines 244-253: newWaste
NewWaste(caller, wastepayload) ==
    [id |-> wastepayload.id,
     categoryId |-> wastepayload.categoryId,
     description |-> wastepayload.description,
     weight |-> wastepayload.weight,
     status |-> wastepayload.status,
     authorId |-> toText(caller)]

createWaste(caller, wastepayload) ==
    IF ~containsKey(userStorage, caller)
    THEN /\ last' = Call("createWaste", caller, wastepayload.id, "Unauthorized")
         /\ UNCHANGED <<userStorage, wasteStorage, paymentStorage, orderVars>>
    ELSE IF ~userStorage[caller].status
    THEN /\ last' = Call("createWaste", caller, wastepayload.id, "Forbidden")
         /\ UNCHANGED <<userStorage, wasteStorage, paymentStorage, orderVars>>
    ELSE /\ wasteStorage' = insert(wasteStorage, NewWaste(caller, wastepayload).id,
                                   NewWaste(caller, wastepayload))
         /\ last' = Call("createWaste", caller, wastepayload.id, "Ok")
         /\ UNCHANGED <<userStorage, paymentStorage, orderVars>>

----------------------------------------------------------------------------
(* updateWaste, lines 269-312 *)

\* line 282: currentPrincipal != waste.Some.authorId compares a Principal
\* with a text; the loose comparison converts the Principal with toString,
\* which is toText.
SenderIsAuthorInverted(caller, waste) == toText(caller) = waste.authorId

SenderIsNotAuthor(caller, waste) == toText(caller) # waste.authorId

\* line 287 reads the identifier `current`, which is declared nowhere: the
\* evaluation throws a ReferenceError, caught at line 308.  Every call that
\* passes lines 271-285 ends here, so lines 288-307 never run.
updateWasteResult(caller, wastepayload) ==
    IF ~containsKey(wasteStorage, wastepayload.id) THEN "NotFound"
    ELSE IF ~containsKey(userStorage, caller) THEN "InternalError"  \* line 281: userInfo is undefined
    ELSE IF /\ userStorage[caller].role = "sender"
            /\ SenderIsNotAuthor(caller, wasteStorage[wastepayload.id])
         THEN "Forbidden"
    ELSE "InternalError"

updateWaste(caller, wastepayload) ==
    /\ last' = Call("updateWaste", caller, wastepayload.id, updateWasteResult(caller, wastepayload))
    /\ UNCHANGED <<userStorage, wasteStorage, paymentStorage, orderVars>>

----------------------------------------------------------------------------
(* processPayment, lines 419-468 *)

\* The strict comparison x === t of a stored value with a text: values of
\* different types are never strictly equal, and status is a bool (lines 55, 75).
StrictEqText(x, t) == x \notin BOOLEAN /\ x = t

\* line 428: status is the bool of the Waste record and is compared with the
\* text "active"; line 434: the role is compared with "buyer".
processPaymentResult(caller, wasteId) ==
    IF ~containsKey(wasteStorage, wasteId) THEN "BadRequest"
    ELSE IF ~StrictEqText(wasteStorage[wasteId].status, "active") THEN "BadRequest"
    ELSE IF ~containsKey(userStorage, caller) THEN "Unauthorized"
    ELSE IF userStorage[caller].role # "buyer" THEN "Unauthorized"
    ELSE "Ok"

processPayment(caller, wasteId) ==
    /\ last' = Call("processPayment", caller, wasteId, processPaymentResult(caller, wasteId))
    /\ UNCHANGED <<userStorage, wasteStorage, paymentStorage, orderVars>>

----------------------------------------------------------------------------
(* the listing queries, lines 216-227, 314-342 and 394-410 *)

\* a query changes no store; only the tag of its Result is kept

\* lines 216-227
getActiveWasteById(caller, id) ==
    /\ last' = Call("getActiveWasteById", caller, id,
                    IF ~containsKey(wasteStorage, id) THEN "WasteDoesNotExist" ELSE "Ok")
    /\ UNCHANGED <<userStorage, wasteStorage, paymentStorage, orderVars>>

\* lines 314-325
getActiveWastes(caller) ==
    /\ last' = Call("getActiveWastes", caller, <<>>, "Ok")
    /\ UNCHANGED <<userStorage, wasteStorage, paymentStorage, orderVars>>

\* lines 327-342.  Line 328 stands before the try: for a caller with no
\* account, get(...).Some is undefined and reading .role throws a TypeError
\* that nothing catches; the call ends without a Result ("Uncaught").
getInactiveWastesResult(caller) ==
    IF ~containsKey(userStorage, caller) THEN "Uncaught"
    ELSE IF userStorage[caller].role # "buyer" THEN "Forbidden"
    ELSE "Ok"

getInactiveWastes(caller) ==
    /\ last' = Call("getInactiveWastes", caller, <<>>, getInactiveWastesResult(caller))
    /\ UNCHANGED <<userStorage, wasteStorage, paymentStorage, orderVars>>

\* lines 394-410
getActiveWasteByCategory(caller, categoryId) ==
    /\ last' = Call("getActiveWasteByCategory", caller, <<>>, "Ok")
    /\ UNCHANGED <<userStorage, wasteStorage, paymentStorage, orderVars>>

----------------------------------------------------------------------------

Init ==
    /\ userStorage = EmptyMap
    /\ wasteStorage = EmptyMap
    /\ paymentStorage = {}
    /\ last = Call("init", 0, <<>>, "Ok")
    /\ pendingOrders = EmptyMap
    /\ timers = {}
    /\ ledger = <<>>
    /\ inflight = {}
    /\ now = 0
    /\ log = <<>>
    /\ issued = [orders |-> 0, memos |-> {}, verified |-> {}, ids |-> {}]

Next ==
    \/ \E c \in Principals, name \in RoleInputs : createUser(c, name)
    \/ \E c \in Principals, p \in WastePayloads : createWaste(c, p)
    \/ \E c \in Principals, p \in WastePayloads : updateWaste(c, p)
    \/ \E c \in Principals, w \in WasteIds : processPayment(c, w)
    \/ \E c \in Principals, w \in WasteIds : getActiveWasteById(c, w)
    \/ \E c \in Principals : getActiveWastes(c)
    \/ \E c \in Principals : getInactiveWastes(c)
    \/ \E c \in Principals, k \in Categories : getActiveWasteByCategory(c, k)

Spec == Init /\ [][Next]_vars

----------------------------------------------------------------------------
(* hash, lines 475-477 *)

\* A 32-bit word is kept as <<high, low>>, two 16-bit halves, and a nat64 the
\* same way (high may exceed 16 bits), so that the arithmetic keeps its width.
Half == 65536

\* the string hash of the hashcode package: for each character,
\* hash = ((hash << 5) - hash + code) & 0xFFFFFFFF
RECURSIVE StringHash(_, _)
StringHash(str, h) ==
    IF str = <<>> THEN h
    ELSE LET t == h[2] * 31 + Head(str)
         IN StringHash(Tail(str), <<((h[1] * 31) + (t \div Half)) % Half, t % Half>>)

\* the signed value of a 32-bit word, as <<signed high, low>>
Signed(w) == <<IF w[1] >= Half \div 2 THEN w[1] - Half ELSE w[1], w[2]>>

SignedAdd(a, b) == <<a[1] + b[1] + ((a[2] + b[2]) \div Half), (a[2] + b[2]) % Half>>

\* Math.abs
SignedAbs(a) ==
    IF a[1] >= 0 THEN a
    ELSE IF a[2] = 0 THEN <<-a[1], 0>> ELSE <<-a[1] - 1, Half - a[2]>>

\* "string", the typeof of the input, which value() hashes and adds
TypeofString == <<115, 116, 114, 105, 110, 103>>

\* hashCode().value(input) for a text input
hashCodeValue(input) ==
    SignedAdd(Signed(StringHash(input, <<0, 0>>)), Signed(StringHash(TypeofString, <<0, 0>>)))

hash(input) == SignedAbs(hashCodeValue(input))

----------------------------------------------------------------------------
(* generateCorrelationId, lines 491-494 *)

\* `${n}` of a nat64
RECURSIVE Decimal(_)
Decimal(n) == IF n < 10 THEN <<48 + n>> ELSE Decimal(n \div 10) \o <<48 + (n % 10)>>

generateCorrelationIdCounted(productId, caller, time) ==
    hash(productId \o <<95>> \o toText(caller) \o <<95>> \o Decimal(time)
         \o <<95>> \o Decimal(issued.orders))

\* ic.caller() and ic.time() are passed in; 95 is the "_" of the template
generateCorrelationId(productId, caller, time) ==
    hash(productId \o <<95>> \o toText(caller) \o <<95>> \o Decimal(time))

----------------------------------------------------------------------------
(* Bounds of the order protocol *)

MaxTime == 2
TimeoutDelay == 1
MaxOrders == 2
MaxBlocks == 1
MaxInflight == 2

Amounts == {7, 1000}

\* listing ids a client may pass to initiate
OrderListingIds == WasteIds

----------------------------------------------------------------------------
(* pendingOrders: the table read at line 502 *)

remove(m, k) == [x \in (DOMAIN m) \ {k} |-> m[x]]

Live(memo) == containsKey(pendingOrders, memo)

\* Principal.fromText
fromText(t) == CHOOSE p \in Principals : toText(p) = t

OrderCall(op, caller, id, memo, result) ==
    [op |-> op, caller |-> caller, id |-> id, memo |-> memo, result |-> result]

----------------------------------------------------------------------------
(* discardByTimeout, lines 500-505 *)

discardByTimeoutUnarmed(ts, memo, delay) == ts

\* ic.setTimer(delay, callback): a one-shot timer.  Its TimerId is the value
\* of the call at line 501, which is dropped.
discardByTimeout(ts, memo, delay) ==
    ts \cup {[id |-> issued.orders + 1, memo |-> memo, deadline |-> now + delay]}

\* No statement of the file keeps a TimerId or calls ic.clearTimer: a timer
\* set at line 501 stays set until it fires, whatever confirm does.
disarm(ts, memo) == ts

TimerCallbackKeeps(po, memo) == po

\* line 502: the table after the callback's remove
TimerCallback(po, memo) == remove(po, memo)

\* the line written for the Opt that remove returned: the order, or None
LogLine(po, memo) ==
    [memo |-> memo, found |-> containsKey(po, memo),
     oid |-> IF containsKey(po, memo) THEN po[memo].oid ELSE 0]

\* line 503: the line is written whatever remove returned
TimerCallbackLog(po, memo) == <<LogLine(po, memo)>>

TimerFire(t) ==
    /\ t \in timers
    /\ now >= t.deadline
    /\ pendingOrders' = TimerCallback(pendingOrders, t.memo)
    /\ log' = log \o TimerCallbackLog(pendingOrders, t.memo)
    /\ timers' = timers \ {t}
    /\ last' = OrderCall("timer", 0, <<>>, t.memo, "Ok")
    /\ UNCHANGED <<canisterVars, paymentStorage, ledger, inflight, now, issued>>

Tick ==
    /\ now < MaxTime
    /\ now' = now + 1
    /\ UNCHANGED <<canisterVars, paymentStorage, last, pendingOrders, timers, ledger,
                   inflight, log, issued>>

----------------------------------------------------------------------------
(* initiate, spec 4.4 *)

Eligible(listingId) ==
    containsKey(wasteStorage, listingId) /\ wasteStorage[listingId].status = TRUE

BuyerEquivalent(c) == containsKey(userStorage, c) /\ userStorage[c].role = "receiver"

NewOrder(caller, listingId, amount, memo) ==
    [memo |-> memo, listingId |-> listingId, buyer |-> caller,
     receiver |-> fromText(wasteStorage[listingId].authorId),
     amount |-> amount, deadline |-> now + TimeoutDelay, oid |-> issued.orders + 1]

Initiate(caller, listingId, amount) ==
    IF ~Eligible(listingId)
    THEN /\ last' = OrderCall("initiate", caller, listingId, <<>>, "BadRequest")
         /\ UNCHANGED <<canisterVars, paymentStorage, orderVars>>
    ELSE IF ~BuyerEquivalent(caller)
    THEN /\ last' = OrderCall("initiate", caller, listingId, <<>>, "Unauthorized")
         /\ UNCHANGED <<canisterVars, paymentStorage, orderVars>>
    ELSE LET memo == generateCorrelationId(listingId, caller, now)
         IN /\ issued.orders < MaxOrders
            /\ now + TimeoutDelay <= MaxTime
            /\ pendingOrders' = insert(pendingOrders, memo, NewOrder(caller, listingId, amount, memo))
            /\ timers' = discardByTimeout(timers, memo, TimeoutDelay)
            /\ issued' = [issued EXCEPT !.orders = @ + 1, !.memos = @ \cup {memo},
                                        !.ids = @ \cup {[listingId |-> listingId, caller |-> caller,
                                                         time |-> now, memo |-> memo]}]
            /\ last' = OrderCall("initiate", caller, listingId, memo, "Ok")
            /\ UNCHANGED <<canisterVars, paymentStorage, ledger, inflight, now, log>>

----------------------------------------------------------------------------
(* the ledger canister, spec 6 *)

\* binaryAddressFromPrincipal(p, 0): "a1", "a2", ...
binaryAddressFromPrincipal(p) == <<97, 48 + p>>

\* the address of an account that belongs to no principal of the canister:
\* "`P", "`Q", ...
OtherAddress(p) == <<96, 79 + p>>

TransferFor(o) ==
    [operation |-> "Transfer", memo |-> o.memo, from |-> binaryAddressFromPrincipal(o.buyer),
     to |-> binaryAddressFromPrincipal(o.receiver), amount |-> o.amount]

\* the blocks the environment appends: the transfer an order asks for, the
\* same with another amount, the same paid from another account, and a block
\* that holds no operation
BlocksFor(o) ==
    {TransferFor(o)}
    \cup {[TransferFor(o) EXCEPT !.amount = a] : a \in Amounts}
    \cup {[TransferFor(o) EXCEPT !.from = OtherAddress(o.buyer)]}
    \cup {[TransferFor(o) EXCEPT !.operation = "None"]}

LedgerAppend(b) ==
    /\ Len(ledger) < MaxBlocks
    /\ ledger' = Append(ledger, b)
    /\ UNCHANGED <<canisterVars, paymentStorage, last, pendingOrders, timers, inflight,
                   now, log, issued>>

\* query_blocks({start, length: 1n}), line 507; blocks are numbered from 1
query_blocks(start) == IF start \in 1..Len(ledger) THEN <<ledger[start]>> ELSE <<>>

----------------------------------------------------------------------------
(* verifyPaymentInternal, lines 506-521 *)

\* lines 509-518: the predicate of find
BlockMatches(b, caller, receiver, amount, memo) ==
    /\ b.operation # "None"
    /\ b.memo = memo
    /\ hash(binaryAddressFromPrincipal(caller)) = hash(b.from)
    /\ hash(binaryAddressFromPrincipal(receiver)) = hash(b.to)
    /\ amount = b.amount

verifyPaymentInternal(caller, receiver, amount, block, memo) ==
    \E i \in 1..Len(query_blocks(block)) :
        BlockMatches(query_blocks(block)[i], caller, receiver, amount, memo)

----------------------------------------------------------------------------
(* the payment record, lines 438-462 *)

\* lines 439-445: Number(amount) * 0.05 is converted to a nat64; the
\* conversion of a number that is not an integer throws.  -1 stands for
\* the throw.
Fees(amount) == IF (amount * 5) % 100 = 0 THEN (amount * 5) \div 100 ELSE -1

NewPayment(o) ==
    [id |-> Cardinality(paymentStorage) + 1, waste_id |-> o.listingId,
     weight |-> wasteStorage[o.listingId].weight, amount |-> o.amount,
     paid_at |-> now, fees |-> Fees(o.amount), memo |-> o.memo, oid |-> o.oid]

----------------------------------------------------------------------------
(* confirm, spec 4.4 and 5 *)

FreeCallIds == {i \in 1..MaxInflight : \A c \in inflight : c.cid # i}

\* phase 1: look the order up and issue the ledger read
ConfirmStart(caller, memo, block) ==
    IF ~Live(memo)
    THEN /\ last' = OrderCall("confirm", caller, <<>>, memo, "BadRequest")
         /\ UNCHANGED <<canisterVars, paymentStorage, orderVars>>
    ELSE /\ FreeCallIds # {}
         /\ inflight' = inflight \cup
                {[cid |-> CHOOSE i \in FreeCallIds : \A j \in FreeCallIds : i <= j,
                  caller |-> caller, memo |-> memo, block |-> block,
                  receiver |-> pendingOrders[memo].receiver,
                  amount |-> pendingOrders[memo].amount,
                  oid |-> pendingOrders[memo].oid]}
         /\ last' = OrderCall("confirmStart", caller, <<>>, memo, "Pending")
         /\ UNCHANGED <<canisterVars, paymentStorage, pendingOrders, timers, ledger,
                        now, log, issued>>

ConfirmRemoveKeeps(po, memo) == po

\* spec 4.4: confirm removes the pending order
ConfirmRemove(po, memo) == remove(po, memo)

\* spec 5: the resumed confirm checks that the order is still pending
Revalidate(memo) == Live(memo)

CommitUnverified(verified) == TRUE

\* spec 4.4: the payment is committed only when the verifier returned true
CommitAllowed(verified) == verified

\* phase 2: resume with the verifier's result
ConfirmResume(c) ==
    LET verified == verifyPaymentInternal(c.caller, c.receiver, c.amount, c.block, c.memo)
    IN /\ c \in inflight
       /\ inflight' = inflight \ {c}
       /\ issued' = IF verified THEN [issued EXCEPT !.verified = @ \cup {c.memo}] ELSE issued
       /\ IF ~Revalidate(c.memo)
          THEN /\ last' = OrderCall("confirm", c.caller, <<>>, c.memo, "BadRequest")
               /\ UNCHANGED <<canisterVars, paymentStorage, pendingOrders, timers, ledger, now, log>>
          ELSE IF ~CommitAllowed(verified)
          THEN /\ last' = OrderCall("confirm", c.caller, <<>>, c.memo, "NotConfirmed")
               /\ UNCHANGED <<canisterVars, paymentStorage, pendingOrders, timers, ledger, now, log>>
          ELSE IF Fees(pendingOrders[c.memo].amount) < 0
          THEN /\ last' = OrderCall("confirm", c.caller, <<>>, c.memo, "InternalError")
               /\ UNCHANGED <<canisterVars, paymentStorage, pendingOrders, timers, ledger, now, log>>
          ELSE /\ paymentStorage' = paymentStorage \cup {NewPayment(pendingOrders[c.memo])}
               /\ pendingOrders' = ConfirmRemove(pendingOrders, c.memo)
               /\ timers' = disarm(timers, c.memo)
               /\ last' = OrderCall("confirm", c.caller, <<>>, c.memo, "Ok")
               /\ UNCHANGED <<canisterVars, ledger, now, log>>

\* the ways the call of line 507 can fail to deliver well-formed blocks
LedgerFaults == {"CallError", "Timeout", "Malformed"}

\* lines 507-509: the call is awaited with no handler around it, so a call
\* that is rejected or times out throws at line 507, and a block without a
\* transaction.operation throws a TypeError at line 509.  No fault makes the
\* function return false.
verifyPaymentInternalOnFault(fault) == "Throw"

\* phase 2 when the ledger call failed: what the verifier threw is caught at
\* the operation boundary (spec 7) and nothing is written
ConfirmFault(c, fault) ==
    /\ c \in inflight
    /\ inflight' = inflight \ {c}
    /\ last' = OrderCall("confirm", c.caller, <<>>, c.memo,
                         IF verifyPaymentInternalOnFault(fault) = "Throw"
                         THEN "InternalError" ELSE "NotConfirmed")
    /\ UNCHANGED <<canisterVars, paymentStorage, pendingOrders, timers, ledger, now, log, issued>>

----------------------------------------------------------------------------

\* a state of Spec: p1 is a sender, p2 a receiver, and p1 has created the
\* listing "Aa" as verified and the listing "BB" as unverified
InitOrders ==
    /\ userStorage = insert(insert(EmptyMap, 1, [id |-> 1, name |-> "sender", role |-> "sender", status |-> TRUE]),
                            2, [id |-> 2, name |-> "receiver", role |-> "receiver", status |-> TRUE])
    /\ wasteStorage = [w \in WasteIds |->
                         [id |-> w, categoryId |-> 1, description |-> 1, weight |-> 1,
                          status |-> (w = <<65, 97>>), authorId |-> toText(1)]]
    /\ paymentStorage = {}
    /\ last = Call("init", 0, <<>>, "Ok")
    /\ pendingOrders = EmptyMap
    /\ timers = {}
    /\ ledger = <<>>
    /\ inflight = {}
    /\ now = 0
    /\ log = <<>>
    /\ issued = [orders |-> 0, memos |-> {}, verified |-> {}, ids |-> {}]

NextOrders ==
    \/ \E c \in Principals, w \in OrderListingIds, a \in Amounts : Initiate(c, w, a)
    \/ \E c \in Principals, m \in issued.memos, b \in 1..MaxBlocks :
          ConfirmStart(c, m, b)
    \/ \E c \in inflight : ConfirmResume(c)
    \/ \E c \in inflight, f \in LedgerFaults : ConfirmFault(c, f)
    \/ \E t \in timers : TimerFire(t)
    \/ \E m \in DOMAIN pendingOrders : \E b \in BlocksFor(pendingOrders[m]) : LedgerAppend(b)
    \/ Tick

SpecOrders == InitOrders /\ [][NextOrders]_vars

\* the timers of the canister fire once their delay has passed, and time passes
FairOrders == SpecOrders /\ WF_vars(Tick) /\ WF_vars(\E t \in timers : TimerFire(t))

----------------------------------------------------------------------------
(* Payments and pending orders *)

Rejections == {"BadRequest", "InvalidWasteStatusUpdate"}

HasOrder(oid) == \E m \in DOMAIN pendingOrders : pendingOrders[m].oid = oid

Confirmed(oid) == \E pay \in paymentStorage : pay.oid = oid

Discarded(oid) == \E i \in 1..Len(log) : log[i].found /\ log[i].oid = oid

\* a step of confirm for a correlation id: its start, or its resumption
ConfirmStep(memo) ==
    \/ \E c \in Principals, b \in 1..MaxBlocks : ConfirmStart(c, memo, b)
    \/ \E c \in inflight : c.memo = memo /\ ConfirmResume(c)

C5_DisarmedTimerIsNoop ==
    [][\A t \in timers :
         (TimerFire(t) /\ Confirmed(t.id))
         => (pendingOrders' = pendingOrders /\ log' = log)]_vars

C7_CorrelationIdFresh ==
    /\ [](\A m \in DOMAIN pendingOrders : pendingOrders[m].memo = m)
    /\ [][\A c \in Principals, w \in OrderListingIds, a \in Amounts :
            (Initiate(c, w, a) /\ last'.result = "Ok")
            => /\ ~Live(last'.memo)
               /\ \A pay \in paymentStorage : pay.memo # last'.memo]_vars

----------------------------------------------------------------------------
(* Listing lifecycle: updateWaste *)

IsSender(c) == containsKey(userStorage, c) /\ userStorage[c].role = "sender"

IsReceiver(c) == containsKey(userStorage, c) /\ userStorage[c].role = "receiver"

IsAuthor(c, id) == containsKey(wasteStorage, id) /\ wasteStorage[id].authorId = toText(c)

Carries(waste, p) ==
    /\ waste.description = p.description
    /\ waste.weight = p.weight
    /\ waste.categoryId = p.categoryId
    /\ waste.status = p.status

\* C8: a call of updateWaste on an existing listing by a registered sender
\* who is not the listing's author returns Forbidden and leaves the listing
\* store as it was.
C8_ForeignSenderForbidden ==
    [][(/\ last'.op = "updateWaste"
        /\ containsKey(wasteStorage, last'.id)
        /\ IsSender(last'.caller)
        /\ ~IsAuthor(last'.caller, last'.id))
       => (last'.result = "Forbidden" /\ wasteStorage' = wasteStorage)]_vars

\* C8 witness: a sender has just been refused on a listing of another author.
C8_Witness ==
    /\ last.op = "updateWaste"
    /\ last.result = "Forbidden"
    /\ containsKey(wasteStorage, last.id)
    /\ IsSender(last.caller)
    /\ ~IsAuthor(last.caller, last.id)

\* C9: a call of updateWaste on an unverified listing by the sender who is
\* its author returns Ok, and the stored listing then carries the payload's
\* description, weight, category and status.
C9_AuthorUpdateSucceeds ==
    [][\A c \in Principals, p \in WastePayloads :
         (/\ updateWaste(c, p)
          /\ IsSender(c)
          /\ IsAuthor(c, p.id)
          /\ wasteStorage[p.id].status = FALSE)
         => (last'.result = "Ok" /\ Carries(wasteStorage'[p.id], p))]_vars

\* C10: a receiver who is not the author flips an unverified listing to
\* verified; on a verified listing every updateWaste fails with
\* InvalidWasteStatusUpdate; a verified listing stays verified.
C10_VerifyOnceIrreversible ==
    [][/\ \A c \in Principals, p \in WastePayloads :
            (/\ updateWaste(c, p)
             /\ IsReceiver(c)
             /\ containsKey(wasteStorage, p.id)
             /\ ~IsAuthor(c, p.id)
             /\ wasteStorage[p.id].status = FALSE
             /\ p.status = TRUE)
            => (last'.result = "Ok" /\ wasteStorage'[p.id].status = TRUE)
       /\ (/\ last'.op = "updateWaste"
           /\ containsKey(wasteStorage, last'.id)
           /\ wasteStorage[last'.id].status = TRUE)
          => last'.result = "InvalidWasteStatusUpdate"
       /\ \A id \in DOMAIN wasteStorage :
            wasteStorage[id].status = TRUE => wasteStorage'[id].status = TRUE]_vars

\* C11: the author of a stored listing is the same after every step, and a
\* step that turns an unverified listing into a verified one is a call by a
\* receiver.
C11_AuthorFixed ==
    [][\A id \in DOMAIN wasteStorage :
         /\ containsKey(wasteStorage', id)
         /\ wasteStorage'[id].authorId = wasteStorage[id].authorId
         /\ (wasteStorage[id].status = FALSE /\ wasteStorage'[id].status = TRUE)
              => IsReceiver(last'.caller)]_vars

----------------------------------------------------------------------------
(* Listing lifecycle: createWaste *)

\* C12: createWaste by a caller with no account returns Unauthorized, by an
\* inactive user Forbidden, both with the listing store as it was; by an
\* active user it returns Ok and the listing stored under the payload's id
\* has the caller as author and the payload's status.
C12_CreateWaste ==
    [][\A c \in Principals, p \in WastePayloads :
         (last'.op = "createWaste" /\ last'.caller = c /\ last'.id = p.id /\ createWaste(c, p)) =>
            IF ~containsKey(userStorage, c)
            THEN last'.result = "Unauthorized" /\ wasteStorage' = wasteStorage
            ELSE IF ~userStorage[c].status
            THEN last'.result = "Forbidden" /\ wasteStorage' = wasteStorage
            ELSE /\ last'.result = "Ok"
                 /\ containsKey(wasteStorage', p.id)
                 /\ wasteStorage'[p.id].authorId = toText(c)
                 /\ wasteStorage'[p.id].status = p.status]_vars

\* C12 witness: an active user has just created a verified listing.
C12_Witness ==
    /\ last.op = "createWaste"
    /\ last.result = "Ok"
    /\ containsKey(userStorage, last.caller)
    /\ userStorage[last.caller].status
    /\ wasteStorage[last.id].authorId = toText(last.caller)
    /\ wasteStorage[last.id].status = TRUE

----------------------------------------------------------------------------
(* processPayment *)

\* C13: processPayment returns BadRequest for a listing that is absent or
\* not eligible for purchase and Unauthorized for a caller without the
\* buyer-equivalent role, in both cases creating no payment and no pending
\* order; every other call returns Ok.
C13_InitiateErrors ==
    [][\A c \in Principals, w \in WasteIds :
         (last'.op = "processPayment" /\ last'.caller = c /\ last'.id = w /\ processPayment(c, w)) =>
            IF ~Eligible(w)
            THEN /\ last'.result = "BadRequest"
                 /\ paymentStorage' = paymentStorage /\ pendingOrders' = pendingOrders
            ELSE IF ~BuyerEquivalent(c)
            THEN /\ last'.result = "Unauthorized"
                 /\ paymentStorage' = paymentStorage /\ pendingOrders' = pendingOrders
            ELSE last'.result = "Ok"]_vars

\* C14: the fee of every stored payment is floor(amount * 5 / 100), and a
\* confirm whose order is pending and whose transfer the verifier found
\* succeeds and stores a payment with that fee, whatever the amount.
C14_FeeFloor ==
    /\ [](\A pay \in paymentStorage : pay.fees = (pay.amount * 5) \div 100)
    /\ [][\A c \in inflight :
            (/\ ConfirmResume(c)
             /\ Live(c.memo)
             /\ verifyPaymentInternal(c.caller, c.receiver, c.amount, c.block, c.memo))
            => /\ last'.result = "Ok"
               /\ \E pay \in paymentStorage' \ paymentStorage :
                     pay.fees = (pay.amount * 5) \div 100]_vars

----------------------------------------------------------------------------
(* The purchase scenario *)

\* C15: the steps of the purchase go through: a receiver's updateWaste with
\* status true on an unverified listing returns Ok and leaves it verified,
\* and processPayment of 1000 by a buyer-equivalent user for a verified
\* listing returns Ok.
C15_PurchaseReachable ==
    [][/\ \A c \in Principals, p \in WastePayloads :
            (/\ last'.op = "updateWaste" /\ last'.caller = c /\ last'.id = p.id
             /\ updateWaste(c, p)
             /\ IsReceiver(c)
             /\ containsKey(wasteStorage, p.id)
             /\ \E s \in Principals : IsSender(s) /\ IsAuthor(s, p.id)
             /\ wasteStorage[p.id].status = FALSE
             /\ p.status = TRUE)
            => (last'.result = "Ok" /\ wasteStorage'[p.id].status = TRUE)
       /\ (/\ last'.op = "processPayment"
           /\ Eligible(last'.id)
           /\ BuyerEquivalent(last'.caller))
          => last'.result = "Ok"]_vars

----------------------------------------------------------------------------
(* Results *)

\* C16: no call of a core operation ends with an uncaught fault, and none
\* returns InternalError to a caller that has no account.
C16_TaggedResults ==
    /\ last.result # "Uncaught"
    /\ last.result = "InternalError" => containsKey(userStorage, last.caller)

----------------------------------------------------------------------------
(* Ledger verification *)

\* C17: a ledger check that failed or found no match is answered with "not
\* yet confirmed" and changes neither the stores nor the pending orders; a
\* pending order leaves the table only by its timer or by its payment.
C17_FailedVerifyKeepsOrder ==
    [][/\ \A c \in inflight, f \in LedgerFaults :
            ConfirmFault(c, f) =>
               /\ last'.result = "NotConfirmed"
               /\ UNCHANGED <<canisterVars, paymentStorage, pendingOrders>>
       /\ \A c \in inflight :
            (/\ ConfirmResume(c)
             /\ Live(c.memo)
             /\ ~verifyPaymentInternal(c.caller, c.receiver, c.amount, c.block, c.memo))
            => /\ last'.result = "NotConfirmed"
               /\ UNCHANGED <<canisterVars, paymentStorage, pendingOrders>>
       /\ \A m \in DOMAIN pendingOrders :
            ~containsKey(pendingOrders', m)
            => \/ \E t \in timers : TimerFire(t) /\ t.memo = m
               \/ \E pay \in paymentStorage' \ paymentStorage : pay.memo = m]_vars

----------------------------------------------------------------------------
(* Correlation ids *)

----------------------------------------------------------------------------
(* verify *)

TransferMatches(b, caller, receiver, amount, memo) ==
    /\ b.operation = "Transfer"
    /\ b.memo = memo
    /\ b.from = binaryAddressFromPrincipal(caller)
    /\ b.to = binaryAddressFromPrincipal(receiver)
    /\ b.amount = amount

\* C19: for every confirm waiting for the ledger, verify is true exactly when
\* a block of its window holds a transfer with the order's correlation id,
\* from the caller's address, to the receiver's address, of the order's
\* amount.
C19_VerifyIffMatch ==
    \A c \in inflight :
        verifyPaymentInternal(c.caller, c.receiver, c.amount, c.block, c.memo)
        <=> \E i \in 1..Len(query_blocks(c.block)) :
               TransferMatches(query_blocks(c.block)[i], c.caller, c.receiver, c.amount, c.memo)

----------------------------------------------------------------------------
(* Listing ids *)

\* C20: a createWaste that returns Ok adds one listing to the listing store
\* and leaves every listing stored before as it was, and no step removes a
\* listing.
C20_CreateNeverOverwrites ==
    [][/\ \A id \in DOMAIN wasteStorage : containsKey(wasteStorage', id)
       /\ (last'.op = "createWaste" /\ last'.result = "Ok")
          => /\ Cardinality(DOMAIN wasteStorage') = Cardinality(DOMAIN wasteStorage) + 1
             /\ \A id \in DOMAIN wasteStorage : wasteStorage'[id] = wasteStorage[id]]_vars

====
